---- MODULE Spec2Model ----
(***************************************************************************)
(* The PowerPoint task pane's layout functions (taskpane.ts): alignShapes, *)
(* arrangeShapesInOrder and requestArrangement, acting on the shapes of    *)
(* the current slide, and the pane's Start / Arrange handlers (App.tsx).   *)
(*                                                                         *)
(* Numbers.  The code computes with JavaScript doubles.  The model uses    *)
(* exact rationals <<n, d>> (d > 0, lowest terms), so equalities below are *)
(* the exact counterparts of the code's equalities up to rounding.         *)
(***************************************************************************)
EXTENDS Integers, Sequences, FiniteSets, TLC

VARIABLES
    shapes,     \* the slide: id -> [left, top, width, height]
    pre,        \* the slide as it was when the running/last call began
    call,       \* the call in progress or just returned (its arguments)
    returned,   \* the value the last call resolved with
    console,    \* the lines the last call wrote with console.log / console.warn
    pc,         \* "idle" before the call, "returned" after it, "repeated" after its repeat
    calls,      \* how many calls have been made on the slide
    original,   \* the slide as it was before the first call
    labeledShapes,  \* the task pane's labeledShapes state: Null or the analysed shapes
    result,     \* the task pane's result state: the text of the result area
    loading,    \* the pane's loading state (PowerPoint pane and Excel chat pane alike)
    message,    \* the PowerPoint pane's message state: the text of the command box
    running,    \* the handler invocations waiting on their awaited call, per handler
    settled,    \* the handler invocation that finished in the last step, and how its call settled
    messages,   \* the Excel chat pane's messages state
    input,      \* the Excel chat pane's input state
    sessionId,  \* the Excel chat pane's sessionId state
    exchanges   \* the sendMessage invocations made so far, each with its local state

\* the state of handlers that run across awaits
async == <<loading, message, running, settled, messages, input, sessionId, exchanges>>

vars == <<shapes, pre, call, returned, console, pc, calls, original, labeledShapes, result,
          loading, message, running, settled, messages, input, sessionId, exchanges>>

-----------------------------------------------------------------------------
(* Bounds of the model *)

\* the longest order the backend returns
MaxOrderLen == 3

\* the most calls made one after another on a slide
MaxCalls == 3

\* the most handler invocations of the PowerPoint pane waiting at the same time
MaxInFlight == 2

\* the most messages sent in the Excel chat pane
MaxSends == 2

-----------------------------------------------------------------------------
(* Rational arithmetic standing for the code's number arithmetic *)

Abs(n) == IF n < 0 THEN -n ELSE n

RECURSIVE GCD(_, _)
GCD(a, b) == IF b = 0 THEN a ELSE GCD(b, a % b)

\* <<0, 0>> stands for a non-finite number (x / 0 in JavaScript).
NonFinite == <<0, 0>>

Norm(n, d) ==
    IF d = 0 THEN NonFinite
    ELSE LET g == GCD(Abs(n), Abs(d))
             s == IF d < 0 THEN -1 ELSE 1
         IN  <<(s * n) \div g, (s * d) \div g>>

Num(i) == <<i, 1>>

RAdd(x, y) == IF x[2] = 0 \/ y[2] = 0 THEN NonFinite
              ELSE Norm(x[1] * y[2] + y[1] * x[2], x[2] * y[2])

RSub(x, y) == IF x[2] = 0 \/ y[2] = 0 THEN NonFinite
              ELSE Norm(x[1] * y[2] - y[1] * x[2], x[2] * y[2])

\* x / k for an integer k
RDiv(x, k) == IF x[2] = 0 THEN NonFinite ELSE Norm(x[1], x[2] * k)

\* k * x for an integer k
RMul(k, x) == IF x[2] = 0 THEN NonFinite ELSE Norm(k * x[1], x[2])

RLess(x, y) == x[2] # 0 /\ y[2] # 0 /\ x[1] * y[2] < y[1] * x[2]

RLeq(x, y) == x[2] # 0 /\ y[2] # 0 /\ x[1] * y[2] <= y[1] * x[2]

-----------------------------------------------------------------------------
(* The slide and the inputs *)

ShapeIds == {"a", "b", "c"}

\* an id that names no shape of the slide
AbsentId == "z"

Rect(l, t, w, h) == [left |-> Num(l), top |-> Num(t), width |-> Num(w), height |-> Num(h)]

\* the geometries a shape of the initial slide may have: the three shapes of the
\* worked example (50 x 50 at top 0, lefts 500, 10, 250), a shape wider than the
\* available width, two that together are wider than it, and one that is
\* taller than the available height
Rects == { Rect(500, 0, 50, 50), Rect(10, 0, 50, 50), Rect(250, 0, 50, 50),
           Rect(10, 100, 900, 80), Rect(250, 40, 450, 80), Rect(100, 20, 500, 480) }

\* the shapes of the slide in the order slide.shapes.items lists them
SlideOrder == <<"a", "b", "c">>

AlignmentModes == {"horizontal_distribute", "vertical_distribute",
                   "horizontal_center", "vertical_center"}

\* the alignment strings a caller may pass: the four modes and one other string
AlignmentStrings == AlignmentModes \cup {"diagonal"}

SeqsUpTo(S, n) == UNION {[1..k -> S] : k \in 0..n}

\* PowerPoint's selection: distinct shapes of the slide, in selection order
Selections == {s \in SeqsUpTo(ShapeIds, Cardinality(ShapeIds)) :
                 \A i, j \in 1..Len(s) : i # j => s[i] # s[j]}

\* the order the backend may return: any ids, repeated or absent ones included
Orders == SeqsUpTo(ShapeIds \cup {AbsentId}, MaxOrderLen)

NoCall == [op |-> "none", mode |-> "", ids |-> <<>>, outcome |-> ""]

-----------------------------------------------------------------------------
(* taskpane.ts *)

slideWidth == 960
slideHeight == 540
margin == 40

\* items.reduce((sum, s) => sum + s[pos] + s[size] / 2, 0)
RECURSIVE SumCenters(_, _, _, _)
SumCenters(doc, items, pos, size) ==
    IF items = <<>> THEN Num(0)
    ELSE RAdd(SumCenters(doc, SubSeq(items, 1, Len(items) - 1), pos, size),
              RAdd(doc[items[Len(items)]][pos], RDiv(doc[items[Len(items)]][size], 2)))

\* items.reduce((sum, s) => sum + s[size], 0)
RECURSIVE SumSizes(_, _, _)
SumSizes(doc, items, size) ==
    IF items = <<>> THEN Num(0)
    ELSE RAdd(SumSizes(doc, SubSeq(items, 1, Len(items) - 1), size),
              doc[items[Len(items)]][size])

\* AvgCenter as the mean of the edges, the half sizes left out
AvgCenter_OfEdges(doc, items, pos, size) == RDiv(SumSizes(doc, items, pos), Len(items))

\* items.reduce(...) / items.length
AvgCenter(doc, items, pos, size) == RDiv(SumCenters(doc, items, pos, size), Len(items))

\* Gap with the margin taken off one side only
Gap_OneMargin(doc, items, slide, size) ==
    RDiv(RSub(Num(slide - margin), SumSizes(doc, items, size)), Len(items) - 1)

\* Gap with the division by the number of shapes instead of the number of gaps
Gap_DivByCount(doc, items, slide, size) ==
    RDiv(RSub(Num(slide - 2 * margin), SumSizes(doc, items, size)), Len(items))

\* (available - total) / (items.length - 1)
Gap(doc, items, slide, size) ==
    RDiv(RSub(Num(slide - 2 * margin), SumSizes(doc, items, size)), Len(items) - 1)

\* InsertSorted with a comparator that puts a shape before the shapes it ties with
RECURSIVE InsertSorted_TiesFirst(_, _, _, _)
InsertSorted_TiesFirst(seq, s, doc, pos) ==
    IF seq = <<>> THEN <<s>>
    ELSE IF RLeq(doc[s][pos], doc[Head(seq)][pos]) THEN <<s>> \o seq
    ELSE <<Head(seq)>> \o InsertSorted_TiesFirst(Tail(seq), s, doc, pos)

\* [...items].sort((a, b) => a[pos] - b[pos]): ascending, stable
RECURSIVE InsertSorted(_, _, _, _)
InsertSorted(seq, s, doc, pos) ==
    IF seq = <<>> THEN <<s>>
    ELSE IF RLess(doc[s][pos], doc[Head(seq)][pos]) THEN <<s>> \o seq
    ELSE <<Head(seq)>> \o InsertSorted(Tail(seq), s, doc, pos)

\* SortedBy without the sort: the shapes are taken in selection order
SortedBy_NoSort(items, doc, pos) == items

RECURSIVE SortedBy(_, _, _)
SortedBy(items, doc, pos) ==
    IF items = <<>> THEN <<>>
    ELSE InsertSorted(SortedBy(SubSeq(items, 1, Len(items) - 1), doc, pos),
                      items[Len(items)], doc, pos)

\* CenterLoop taking the mean inside the loop, over the shapes still to be moved
RECURSIVE CenterLoop_AvgInLoop(_, _, _, _, _)
CenterLoop_AvgInLoop(doc, items, avg, pos, size) ==
    IF items = <<>> THEN doc
    ELSE LET shape == Head(items)
             now == AvgCenter(doc, items, pos, size)
         IN  CenterLoop_AvgInLoop([doc EXCEPT ![shape][pos] = RSub(now, RDiv(doc[shape][size], 2))],
                                  Tail(items), avg, pos, size)

\* CenterLoop putting the shape's edge, not its center, on the mean
RECURSIVE CenterLoop_NoHalf(_, _, _, _, _)
CenterLoop_NoHalf(doc, items, avg, pos, size) ==
    IF items = <<>> THEN doc
    ELSE CenterLoop_NoHalf([doc EXCEPT ![Head(items)][pos] = avg], Tail(items), avg, pos, size)

\* for (const shape of items) { shape[pos] = avg - shape[size] / 2; }
RECURSIVE CenterLoop(_, _, _, _, _)
CenterLoop(doc, items, avg, pos, size) ==
    IF items = <<>> THEN doc
    ELSE LET shape == Head(items)
         IN  CenterLoop([doc EXCEPT ![shape][pos] = RSub(avg, RDiv(doc[shape][size], 2))],
                        Tail(items), avg, pos, size)

\* DistributeLoop stretching every shape over the gap that follows it
RECURSIVE DistributeLoop_FillsGap(_, _, _, _, _, _)
DistributeLoop_FillsGap(doc, items, current, gap, pos, size) ==
    IF items = <<>> THEN doc
    ELSE LET shape == Head(items)
         IN  DistributeLoop_FillsGap(
                 [doc EXCEPT ![shape][pos] = current,
                             ![shape][size] = RAdd(doc[shape][size], gap)],
                 Tail(items), RAdd(current, RAdd(doc[shape][size], gap)), gap, pos, size)

\* alignShapes: let current = margin;
\* for (const shape of sorted) { shape[pos] = current; current += shape[size] + gap; }
RECURSIVE DistributeLoop(_, _, _, _, _, _)
DistributeLoop(doc, items, current, gap, pos, size) ==
    IF items = <<>> THEN doc
    ELSE LET shape == Head(items)
         IN  DistributeLoop([doc EXCEPT ![shape][pos] = current], Tail(items),
                            RAdd(current, RAdd(doc[shape][size], gap)), gap, pos, size)

\* OrderedDistributeLoop advancing by the gap alone, the shape's own size left out
RECURSIVE OrderedDistributeLoop_NoSize(_, _, _, _, _, _, _, _, _)
OrderedDistributeLoop_NoSize(doc, items, current, gap, pos, size, avg, cpos, csize) ==
    IF items = <<>> THEN doc
    ELSE LET shape == Head(items)
             moved == [doc EXCEPT ![shape][pos] = current,
                                  ![shape][cpos] = RSub(avg, RDiv(doc[shape][csize], 2))]
         IN  OrderedDistributeLoop_NoSize(moved, Tail(items), RAdd(current, gap), gap,
                                          pos, size, avg, cpos, csize)

\* arrangeShapesInOrder: let current = margin;
\* for (const shape of orderedShapes) { shape[pos] = current;
\*   shape[cpos] = avg - shape[csize] / 2; current += shape[size] + gap; }
RECURSIVE OrderedDistributeLoop(_, _, _, _, _, _, _, _, _)
OrderedDistributeLoop(doc, items, current, gap, pos, size, avg, cpos, csize) ==
    IF items = <<>> THEN doc
    ELSE LET shape == Head(items)
             moved == [doc EXCEPT ![shape][pos] = current,
                                  ![shape][cpos] = RSub(avg, RDiv(doc[shape][csize], 2))]
         IN  OrderedDistributeLoop(moved, Tail(items),
                                   RAdd(current, RAdd(doc[shape][size], gap)), gap,
                                   pos, size, avg, cpos, csize)

\* AlignBranches whose vertical_distribute spreads over the slide's width
AlignBranches_VerticalUsesWidth(doc, items, alignmentType) ==
    IF alignmentType = "horizontal_center" THEN
        CenterLoop(doc, items, AvgCenter(doc, items, "left", "width"), "left", "width")
    ELSE IF alignmentType = "vertical_center" THEN
        CenterLoop(doc, items, AvgCenter(doc, items, "top", "height"), "top", "height")
    ELSE IF alignmentType = "horizontal_distribute" THEN
        DistributeLoop(doc, SortedBy(items, doc, "left"), Num(margin),
                       Gap(doc, items, slideWidth, "width"), "left", "width")
    ELSE IF alignmentType = "vertical_distribute" THEN
        DistributeLoop(doc, SortedBy(items, doc, "top"), Num(margin),
                       Gap(doc, items, slideWidth, "height"), "top", "height")
    ELSE doc

\* AlignBranches with the two center modes acting on each other's axis
AlignBranches_CentersSwapped(doc, items, alignmentType) ==
    IF alignmentType = "horizontal_center" THEN
        CenterLoop(doc, items, AvgCenter(doc, items, "top", "height"), "top", "height")
    ELSE IF alignmentType = "vertical_center" THEN
        CenterLoop(doc, items, AvgCenter(doc, items, "left", "width"), "left", "width")
    ELSE IF alignmentType = "horizontal_distribute" THEN
        DistributeLoop(doc, SortedBy(items, doc, "left"), Num(margin),
                       Gap(doc, items, slideWidth, "width"), "left", "width")
    ELSE IF alignmentType = "vertical_distribute" THEN
        DistributeLoop(doc, SortedBy(items, doc, "top"), Num(margin),
                       Gap(doc, items, slideHeight, "height"), "top", "height")
    ELSE doc

\* alignShapes, the branch on alignmentType (the selection holds 2 or more shapes)
AlignBranches(doc, items, alignmentType) ==
    IF alignmentType = "horizontal_center" THEN
        CenterLoop(doc, items, AvgCenter(doc, items, "left", "width"), "left", "width")
    ELSE IF alignmentType = "vertical_center" THEN
        CenterLoop(doc, items, AvgCenter(doc, items, "top", "height"), "top", "height")
    ELSE IF alignmentType = "horizontal_distribute" THEN
        DistributeLoop(doc, SortedBy(items, doc, "left"), Num(margin),
                       Gap(doc, items, slideWidth, "width"), "left", "width")
    ELSE IF alignmentType = "vertical_distribute" THEN
        DistributeLoop(doc, SortedBy(items, doc, "top"), Num(margin),
                       Gap(doc, items, slideHeight, "height"), "top", "height")
    ELSE doc

\* alignShapes: fewer than 2 selected shapes return before anything is written
AlignEnough(items) == ~(Len(items) < 2)

\* the slide after alignShapes(alignmentType) with `items` selected
AlignResult(doc, items, alignmentType) ==
    IF AlignEnough(items) THEN AlignBranches(doc, items, alignmentType) ELSE doc

AlignConsole(items) ==
    IF AlignEnough(items) THEN {} ELSE {"Need at least 2 shapes to align"}

\* OrderedShapes pushing a shape once, at its first place in the order
RECURSIVE OrderedShapes_Dedup(_, _)
OrderedShapes_Dedup(doc, shapeIds) ==
    IF shapeIds = <<>> THEN <<>>
    ELSE LET rest == OrderedShapes_Dedup(doc, SubSeq(shapeIds, 1, Len(shapeIds) - 1))
             id == shapeIds[Len(shapeIds)]
         IN  IF id \in DOMAIN doc /\ ~(\E k \in 1..Len(rest) : rest[k] = id)
             THEN Append(rest, id) ELSE rest

\* OrderedShapes as a filter of the slide's shapes: those the order names, in the
\* slide's order
OrderedShapes_SlideOrder(doc, shapeIds) ==
    SelectSeq(SlideOrder, LAMBDA id : \E k \in 1..Len(shapeIds) : shapeIds[k] = id)

\* arrangeShapesInOrder: orderedShapes, the entries of shapeIds that shapeMap holds
RECURSIVE OrderedShapes(_, _)
OrderedShapes(doc, shapeIds) ==
    IF shapeIds = <<>> THEN <<>>
    ELSE IF Head(shapeIds) \in DOMAIN doc
         THEN <<Head(shapeIds)>> \o OrderedShapes(doc, Tail(shapeIds))
         ELSE OrderedShapes(doc, Tail(shapeIds))

\* ArrangeBranches with a last branch that treats any other string as vertical_center
ArrangeBranches_DefaultBranch(doc, orderedShapes, alignment) ==
    LET avgCenterY == AvgCenter(doc, orderedShapes, "top", "height")
    IN  IF alignment = "horizontal_distribute" THEN
            OrderedDistributeLoop(doc, orderedShapes, Num(margin),
                                  Gap(doc, orderedShapes, slideWidth, "width"),
                                  "left", "width", avgCenterY, "top", "height")
        ELSE IF alignment = "vertical_distribute" THEN
            OrderedDistributeLoop(doc, orderedShapes, Num(margin),
                                  Gap(doc, orderedShapes, slideHeight, "height"),
                                  "top", "height",
                                  AvgCenter(doc, orderedShapes, "left", "width"),
                                  "left", "width")
        ELSE IF alignment = "horizontal_center" THEN
            CenterLoop(doc, orderedShapes, AvgCenter(doc, orderedShapes, "left", "width"),
                       "left", "width")
        ELSE CenterLoop(doc, orderedShapes, avgCenterY, "top", "height")

\* ArrangeBranches whose distribute modes leave the other axis alone
ArrangeBranches_NoCrossAxis(doc, orderedShapes, alignment) ==
    IF alignment = "horizontal_distribute" THEN
        DistributeLoop(doc, orderedShapes, Num(margin),
                       Gap(doc, orderedShapes, slideWidth, "width"), "left", "width")
    ELSE IF alignment = "vertical_distribute" THEN
        DistributeLoop(doc, orderedShapes, Num(margin),
                       Gap(doc, orderedShapes, slideHeight, "height"), "top", "height")
    ELSE IF alignment = "horizontal_center" THEN
        CenterLoop(doc, orderedShapes, AvgCenter(doc, orderedShapes, "left", "width"),
                   "left", "width")
    ELSE IF alignment = "vertical_center" THEN
        CenterLoop(doc, orderedShapes, AvgCenter(doc, orderedShapes, "top", "height"),
                   "top", "height")
    ELSE doc

\* arrangeShapesInOrder, the branch on alignment (2 or more shapes resolved)
ArrangeBranches(doc, orderedShapes, alignment) ==
    LET avgCenterY == AvgCenter(doc, orderedShapes, "top", "height")
    IN  IF alignment = "horizontal_distribute" THEN
            OrderedDistributeLoop(doc, orderedShapes, Num(margin),
                                  Gap(doc, orderedShapes, slideWidth, "width"),
                                  "left", "width", avgCenterY, "top", "height")
        ELSE IF alignment = "vertical_distribute" THEN
            OrderedDistributeLoop(doc, orderedShapes, Num(margin),
                                  Gap(doc, orderedShapes, slideHeight, "height"),
                                  "top", "height",
                                  AvgCenter(doc, orderedShapes, "left", "width"),
                                  "left", "width")
        ELSE IF alignment = "horizontal_center" THEN
            CenterLoop(doc, orderedShapes, AvgCenter(doc, orderedShapes, "left", "width"),
                       "left", "width")
        ELSE IF alignment = "vertical_center" THEN
            CenterLoop(doc, orderedShapes, avgCenterY, "top", "height")
        ELSE doc

\* ArrangeEnough counting the ids of the order instead of the shapes they resolve to
ArrangeEnough_CountsIds(doc, shapeIds) == ~(Len(shapeIds) < 2)

\* arrangeShapesInOrder: fewer than 2 resolved shapes return before anything is written
ArrangeEnough(doc, shapeIds) == ~(Len(OrderedShapes(doc, shapeIds)) < 2)

\* ArrangeResult giving up at an id that names no shape
ArrangeResult_AbortsOnAbsent(doc, shapeIds, alignment) ==
    IF \E k \in 1..Len(shapeIds) : shapeIds[k] \notin DOMAIN doc THEN doc
    ELSE IF ArrangeEnough(doc, shapeIds)
    THEN ArrangeBranches(doc, OrderedShapes(doc, shapeIds), alignment)
    ELSE doc

\* the slide after arrangeShapesInOrder(shapeIds, alignment)
ArrangeResult(doc, shapeIds, alignment) ==
    IF ArrangeEnough(doc, shapeIds)
    THEN ArrangeBranches(doc, OrderedShapes(doc, shapeIds), alignment)
    ELSE doc

ArrangeConsole(doc, shapeIds) ==
    {"Shape order:"}
    \cup
    {"Shape with id " \o shapeIds[i] \o " not found" :
        i \in {j \in 1..Len(shapeIds) : shapeIds[j] \notin DOMAIN doc}}
    \cup (IF ArrangeEnough(doc, shapeIds) THEN {} ELSE {"Need at least 2 shapes to arrange"})

\* what requestArrangement resolves with
Explanation == "result.explanation"

\* `${error}` for what the try block threw: the Error of line 398, or fetch's rejection
Thrown(outcome) ==
    IF outcome = "not_ok" THEN "Error: Arrange failed: 500 - Internal Server Error"
    ELSE "TypeError: Failed to fetch"

\* RequestReturn handing on what was thrown as it is
RequestReturn_Rethrows(outcome) == IF outcome = "ok" THEN Explanation ELSE Thrown(outcome)

RequestReturn(outcome) ==
    IF outcome = "ok" THEN Explanation ELSE "Error: " \o Thrown(outcome)

\* the outcomes of fetch(`${BACKEND_URL}/arrange`): a response that is ok, a
\* response that is not, and a rejected fetch
FetchOutcomes == {"ok", "not_ok", "rejected"}

\* labeledShapes before the first analysis (a record, so that it compares with slides)
Null == [null |-> TRUE]

\* arrangeShapesInOrder working on the geometry the task pane holds
ArrangeGeometry_Stale(doc, labeled) == labeled

\* the geometry arrangeShapesInOrder works on: loaded from the slide inside the call
ArrangeGeometry(doc, labeled) == doc

\* sessionId before the backend has answered
NullSession == "null"

\* no handler has been invoked: the initial values of the panes' useState calls
NoneRunning == [analysis |-> 0, arrangement |-> 0, quickAlign |-> 0]
NoSettle == [op |-> "none", outcome |-> ""]

NothingInFlight ==
    /\ loading = FALSE
    /\ message = ""
    /\ running = NoneRunning
    /\ settled = NoSettle
    /\ messages = <<>>
    /\ input = ""
    /\ sessionId = NullSession
    /\ exchanges = <<>>

-----------------------------------------------------------------------------
(* The state machine: one call of alignShapes or requestArrangement on a slide.  *)
(* Every call reads the geometry afresh from the document, so a call made after *)
(* others is a call on the slide they left.                                     *)

Init ==
    /\ shapes \in [ShapeIds -> Rects]
    /\ pre = shapes
    /\ call = NoCall
    /\ returned = ""
    /\ console = {}
    /\ pc = "idle"
    /\ calls = 0
    /\ original = shapes
    /\ labeledShapes = Null
    /\ result = ""
    /\ NothingInFlight

\* alignShapes(alignmentType), with `selected` the shapes selected in PowerPoint
alignShapes(selected, alignmentType) ==
    /\ pc = "idle"
    /\ calls < MaxCalls
    /\ shapes' = AlignResult(shapes, selected, alignmentType)
    /\ pre' = shapes
    /\ call' = [op |-> "alignShapes", mode |-> alignmentType, ids |-> selected,
                outcome |-> "ok"]
    /\ returned' = "undefined"
    /\ console' = AlignConsole(selected)
    /\ pc' = "returned"
    /\ calls' = calls + 1
    /\ UNCHANGED <<original, labeledShapes, result>>
    /\ UNCHANGED async

\* the body of requestArrangement, the backend answering {order, alignment,
\* explanation}: arrangeShapesInOrder(result.order, result.alignment) runs, the
\* explanation is returned
RequestOk(order, alignment) ==
    /\ pc = "idle"
    /\ calls < MaxCalls
    /\ shapes' = ArrangeResult(ArrangeGeometry(shapes, labeledShapes), order, alignment)
    /\ pre' = shapes
    /\ call' = [op |-> "requestArrangement", mode |-> alignment, ids |-> order,
                outcome |-> "ok"]
    /\ returned' = RequestReturn("ok")
    /\ console' = ArrangeConsole(shapes, order)
    /\ pc' = "returned"
    /\ calls' = calls + 1

\* the body of requestArrangement, the fetch rejecting or answering with a status
\* that is not ok: the error is caught and returned as a string
RequestFailed(outcome) ==
    /\ pc = "idle"
    /\ calls < MaxCalls
    /\ outcome # "ok"
    /\ shapes' = shapes
    /\ pre' = shapes
    /\ call' = [op |-> "requestArrangement", mode |-> "", ids |-> <<>>,
                outcome |-> outcome]
    /\ returned' = RequestReturn(outcome)
    /\ console' = {"Arrangement error:"}
    /\ pc' = "returned"
    /\ calls' = calls + 1

requestArrangementOk(order, alignment) ==
    /\ RequestOk(order, alignment)
    /\ UNCHANGED <<original, labeledShapes, result>>
    /\ UNCHANGED async

requestArrangementFailed(outcome) ==
    /\ RequestFailed(outcome)
    /\ UNCHANGED <<original, labeledShapes, result>>
    /\ UNCHANGED async

Next ==
    \/ \E selected \in Selections, t \in AlignmentStrings : alignShapes(selected, t)
    \/ \E order \in Orders, t \in AlignmentStrings : requestArrangementOk(order, t)
    \/ \E outcome \in FetchOutcomes : requestArrangementFailed(outcome)

Spec == Init /\ [][Next]_vars

-----------------------------------------------------------------------------
(* The same call made twice in a row *)

\* alignShapes called again with the same selection and mode, on the slide the
\* first call left
alignShapesAgain ==
    /\ pc = "returned"
    /\ call.op = "alignShapes"
    /\ calls < MaxCalls
    /\ shapes' = AlignResult(shapes, call.ids, call.mode)
    /\ pre' = shapes
    /\ console' = AlignConsole(call.ids)
    /\ pc' = "repeated"
    /\ calls' = calls + 1
    /\ UNCHANGED <<call, returned, original, labeledShapes, result>>
    /\ UNCHANGED async

\* arrangeShapesInOrder called again with the same order and alignment, on the
\* slide the first call left
arrangeShapesInOrderAgain ==
    /\ pc = "returned"
    /\ call.op = "requestArrangement" /\ call.outcome = "ok"
    /\ calls < MaxCalls
    /\ shapes' = ArrangeResult(ArrangeGeometry(shapes, labeledShapes), call.ids, call.mode)
    /\ pre' = shapes
    /\ console' = ArrangeConsole(shapes, call.ids)
    /\ pc' = "repeated"
    /\ calls' = calls + 1
    /\ UNCHANGED <<call, returned, original, labeledShapes, result>>
    /\ UNCHANGED async

TwiceNext ==
    \/ Next
    \/ alignShapesAgain
    \/ arrangeShapesInOrderAgain

TwiceSpec == Init /\ [][TwiceNext]_vars

-----------------------------------------------------------------------------
(* Calls one after another, up to MaxCalls of them *)

\* the slides the sequences start from
SeqSlides ==
    { [a |-> Rect(500, 0, 50, 50), b |-> Rect(10, 100, 900, 80), c |-> Rect(250, 40, 450, 80)],
      [a |-> Rect(10, 0, 50, 50), b |-> Rect(10, 0, 50, 50), c |-> Rect(100, 20, 500, 480)] }

\* the selections and the backend orders of the sequences: part of the slide, all
\* of it, one shape, an absent id, a repeated id
SeqSelections == { <<"a", "b">>, <<"c", "a", "b">>, <<"b">> }
SeqOrders == { <<"b", "a">>, <<"c", AbsentId, "a">>, <<"b", "c", "b">>, <<AbsentId>> }

SeqInit ==
    /\ shapes \in SeqSlides
    /\ pre = shapes
    /\ call = NoCall
    /\ returned = ""
    /\ console = {}
    /\ pc = "idle"
    /\ calls = 0
    /\ original = shapes
    /\ labeledShapes = Null
    /\ result = ""
    /\ NothingInFlight

\* the call's promise has resolved; the next call can be made
Return ==
    /\ pc = "returned"
    /\ pc' = "idle"
    /\ pre' = shapes
    /\ call' = NoCall
    /\ returned' = ""
    /\ console' = {}
    /\ UNCHANGED <<shapes, calls, original, labeledShapes, result>>
    /\ UNCHANGED async

SeqNext ==
    \/ \E selected \in SeqSelections, t \in AlignmentStrings : alignShapes(selected, t)
    \/ \E order \in SeqOrders, t \in AlignmentStrings : requestArrangementOk(order, t)
    \/ \E outcome \in FetchOutcomes : requestArrangementFailed(outcome)
    \/ Return

SeqSpec == SeqInit /\ [][SeqNext]_vars

-----------------------------------------------------------------------------
(* The task pane (App.tsx): Start analyses the slide, the user may move or     *)
(* resize shapes in PowerPoint, Arrange sends the command to the backend and   *)
(* runs the arrangement it answers.                                           *)

\* the geometries the shapes of the pane's slides take
PaneRects == { Rect(500, 0, 50, 50), Rect(10, 100, 900, 80) }

\* the text of the command box: empty, blank, or a command
Messages == {"", " ", "put them in a row"}

\* message.trim()
Trim(text) == IF text = " " THEN "" ELSE text

\* the outcomes of analyzeScene's fetch of /analyze
AnalyzeOutcomes == {"ok", "not_ok", "rejected"}

\* `${error}` for what analyzeScene threw
AnalyzeThrown(outcome) ==
    IF outcome = "not_ok" THEN "Error: Analyze failed: 500 - Internal Server Error"
    ELSE "TypeError: Failed to fetch"

PaneInit ==
    /\ shapes \in [ShapeIds -> PaneRects]
    /\ pre = shapes
    /\ call = NoCall
    /\ returned = ""
    /\ console = {}
    /\ pc = "idle"
    /\ calls = 0
    /\ original = shapes
    /\ labeledShapes = Null
    /\ result = ""
    /\ NothingInFlight

\* handleStart: analyzeScene reads the slide's shapes (getAllShapes) and the backend
\* labels them; labeledShapes holds the geometry as it was read
handleStart(outcome) ==
    /\ pc = "idle"
    /\ labeledShapes' = IF outcome = "ok" THEN shapes ELSE Null
    /\ result' = IF outcome = "ok"
                 THEN "Ready! Found 3 objects. Type your arrangement command below."
                 ELSE "Error: " \o AnalyzeThrown(outcome)
    /\ UNCHANGED <<shapes, pre, call, returned, console, pc, calls, original>>
    /\ UNCHANGED async

\* the user moves or resizes shape s in PowerPoint
userEdit(s, r) ==
    /\ pc = "idle"
    /\ shapes[s] # r
    /\ shapes' = [shapes EXCEPT ![s] = r]
    /\ pre' = shapes'
    /\ original' = IF calls = 0 THEN shapes' ELSE original
    /\ UNCHANGED <<call, returned, console, pc, calls, labeledShapes, result>>
    /\ UNCHANGED async

\* handleArrange, the backend answering: requestArrangement runs the arrangement
\* and the explanation is shown
handleArrangeOk(text, order, alignment) ==
    /\ ~(Trim(text) = "" \/ labeledShapes = Null)
    /\ RequestOk(order, alignment)
    /\ result' = RequestReturn("ok")
    /\ UNCHANGED <<original, labeledShapes>>
    /\ UNCHANGED async

\* handleArrange, the request failing: the string requestArrangement returns is shown
handleArrangeFailed(text, outcome) ==
    /\ ~(Trim(text) = "" \/ labeledShapes = Null)
    /\ RequestFailed(outcome)
    /\ result' = RequestReturn(outcome)
    /\ UNCHANGED <<original, labeledShapes>>
    /\ UNCHANGED async

PaneNext ==
    \/ \E outcome \in AnalyzeOutcomes : handleStart(outcome)
    \/ \E s \in ShapeIds, r \in PaneRects : userEdit(s, r)
    \/ \E m \in Messages, order \in Orders, t \in AlignmentStrings :
           handleArrangeOk(m, order, t)
    \/ \E m \in Messages, outcome \in FetchOutcomes : handleArrangeFailed(m, outcome)

PaneSpec == PaneInit /\ [][PaneNext]_vars

-----------------------------------------------------------------------------
(* The PowerPoint task pane with its handlers running across their awaits:     *)
(* handleStart and handleArrange (App.tsx), and handleQuickAlign with the      *)
(* Quick Actions buttons of the pane that has them (part_001).  A handler      *)
(* begins when its control is used and ends when its awaited call settles.     *)

layoutCall == <<pre, call, returned, console, pc, calls, original>>
chat == <<messages, input, sessionId, exchanges>>

\* a slide without shapes
EmptySlide == <<>>

\* the slides of the pane: one with shapes, one without
UiSlides ==
    { [a |-> Rect(500, 0, 50, 50), b |-> Rect(10, 100, 900, 80), c |-> Rect(250, 40, 450, 80)],
      EmptySlide }

\* the shapes selected in PowerPoint when a quick action runs
UiSelection(doc) == IF doc = EmptySlide THEN <<>> ELSE <<"a", "b">>

\* the orders and alignments the backend answers with
UiOrders == { <<"c", "a", "b">> }
UiAlignments == { "horizontal_distribute", "vertical_center" }

\* the calls made on the slide and those begun: at most MaxCalls of them are made
CallsBegun == calls + running.arrangement + running.quickAlign

\* the labels of the Quick Actions buttons
QuickLabel(type) ==
    IF type = "horizontal_center" THEN "Horizontal Center"
    ELSE IF type = "vertical_center" THEN "Vertical Center"
    ELSE IF type = "horizontal_distribute" THEN "Distribute H"
    ELSE "Distribute V"

\* the outcomes of alignShapes: PowerPoint.run resolves or rejects
AlignOutcomes == {"ok", "rejected"}

\* !labeledShapes: null is falsy, an array (an empty one too) is not
Falsy(labeled) == labeled = Null

\* {!labeledShapes && ...}: the block with the Start button
StartShown == Falsy(labeledShapes)

\* {labeledShapes && labeledShapes.length > 0 && ...}: the block with the command
\* box, the Arrange button and the Re-analyze button
MainShown == ~Falsy(labeledShapes) /\ DOMAIN labeledShapes # {}

\* the handler invocations waiting on their awaited call
InFlight == running.analysis + running.arrangement + running.quickAlign

UiInit ==
    /\ shapes \in UiSlides
    /\ pre = shapes
    /\ call = NoCall
    /\ returned = ""
    /\ console = {}
    /\ pc = "idle"
    /\ calls = 0
    /\ original = shapes
    /\ labeledShapes = Null
    /\ result = ""
    /\ NothingInFlight

\* the user types in the command box (disabled while loading)
typeMessage(text) ==
    /\ MainShown
    /\ ~loading
    /\ text # message
    /\ message' = text
    /\ settled' = NoSettle
    /\ UNCHANGED <<shapes, labeledShapes, result, loading, running>>
    /\ UNCHANGED <<layoutCall, chat>>

\* Start or Re-analyze Slide is clicked (both disabled while loading): handleStart
\* runs up to `await analyzeScene()`
handleStartBegin ==
    /\ StartShown \/ MainShown
    /\ ~loading
    /\ InFlight < MaxInFlight
    /\ loading' = TRUE
    /\ result' = "Analyzing slide..."
    /\ labeledShapes' = Null
    /\ running' = [running EXCEPT !.analysis = @ + 1]
    /\ settled' = NoSettle
    /\ UNCHANGED <<shapes, message>>
    /\ UNCHANGED <<layoutCall, chat>>

\* analyzeScene settles and handleStart runs to its end.  A slide without shapes
\* resolves with [] before any fetch; the shapes are those of the slide.
handleStartSettle(outcome) ==
    /\ running.analysis > 0
    /\ ~(shapes = EmptySlide /\ outcome = "not_ok")
    /\ labeledShapes' = IF outcome = "ok" THEN shapes ELSE labeledShapes
    /\ result' = IF outcome # "ok" THEN "Error: " \o AnalyzeThrown(outcome)
                 ELSE IF shapes = EmptySlide
                 THEN "No shapes found on the slide. Add some shapes and try again."
                 ELSE "Ready! Found 3 objects. Type your arrangement command below."
    /\ loading' = FALSE
    /\ running' = [running EXCEPT !.analysis = @ - 1]
    /\ settled' = [op |-> "analysis", outcome |-> outcome]
    /\ UNCHANGED <<shapes, message>>
    /\ UNCHANGED <<layoutCall, chat>>

\* Arrange is clicked (disabled while loading or without a command) or Enter is
\* pressed in the command box (disabled while loading): handleArrange runs up to
\* `await requestArrangement(...)`
handleArrangeBegin ==
    /\ MainShown
    /\ ~loading
    /\ ~(Trim(message) = "" \/ Falsy(labeledShapes))
    /\ InFlight < MaxInFlight
    /\ CallsBegun < MaxCalls
    /\ loading' = TRUE
    /\ result' = "Arranging..."
    /\ running' = [running EXCEPT !.arrangement = @ + 1]
    /\ settled' = NoSettle
    /\ UNCHANGED <<shapes, labeledShapes, message>>
    /\ UNCHANGED <<layoutCall, chat>>

\* requestArrangement resolves (with the explanation, or with its error string) and
\* handleArrange runs to its end
handleArrangeSettle(order, alignment, outcome) ==
    /\ running.arrangement > 0
    /\ shapes' = IF outcome = "ok"
                 THEN ArrangeResult(ArrangeGeometry(shapes, labeledShapes), order, alignment)
                 ELSE shapes
    /\ result' = RequestReturn(outcome)
    /\ message' = ""
    /\ loading' = FALSE
    /\ running' = [running EXCEPT !.arrangement = @ - 1]
    /\ settled' = [op |-> "arrangement", outcome |-> outcome]
    /\ calls' = calls + 1
    /\ UNCHANGED labeledShapes
    /\ UNCHANGED <<pre, call, returned, console, pc, original, chat>>

\* a Quick Actions button is clicked (the buttons carry no disabled attribute):
\* handleQuickAlign runs up to `await alignShapes(type)`
handleQuickAlignBegin ==
    /\ InFlight < MaxInFlight
    /\ CallsBegun < MaxCalls
    /\ loading' = TRUE
    /\ result' = ""
    /\ running' = [running EXCEPT !.quickAlign = @ + 1]
    /\ settled' = NoSettle
    /\ UNCHANGED <<shapes, labeledShapes, message>>
    /\ UNCHANGED <<layoutCall, chat>>

\* alignShapes settles and handleQuickAlign runs to its end
handleQuickAlignSettle(type, outcome) ==
    /\ running.quickAlign > 0
    /\ shapes' = IF outcome = "ok" THEN AlignResult(shapes, UiSelection(shapes), type)
                 ELSE shapes
    /\ result' = IF outcome = "ok" THEN "Applied: " \o QuickLabel(type)
                 ELSE "Error: Error: PowerPoint.run failed"
    /\ loading' = FALSE
    /\ running' = [running EXCEPT !.quickAlign = @ - 1]
    /\ settled' = [op |-> "quickAlign", outcome |-> outcome]
    /\ calls' = calls + 1
    /\ UNCHANGED <<labeledShapes, message>>
    /\ UNCHANGED <<pre, call, returned, console, pc, original, chat>>

UiNext ==
    \/ \E text \in Messages : typeMessage(text)
    \/ handleStartBegin
    \/ \E outcome \in AnalyzeOutcomes : handleStartSettle(outcome)
    \/ handleArrangeBegin
    \/ \E order \in UiOrders, t \in UiAlignments, outcome \in FetchOutcomes :
           handleArrangeSettle(order, t, outcome)
    \/ handleQuickAlignBegin
    \/ \E t \in AlignmentModes, outcome \in AlignOutcomes : handleQuickAlignSettle(t, outcome)

UiSpec == UiInit /\ [][UiNext]_vars

-----------------------------------------------------------------------------
(* The Excel chat pane (excel/.../components/App.tsx): sendMessage posts the    *)
(* message to /chat, executes the tool calls of each response and posts their  *)
(* results, until a response comes without tool calls.  The input and the Send *)
(* button are never disabled, so sendMessage can be invoked while earlier      *)
(* invocations are waiting.  The workbook's cells are not part of the model.   *)

\* the session ids the backend answers with
SessionIds == {"s1", "s2"}

ToolCall(id, name) == [id |-> id, name |-> name]

\* the tool_calls of the backend's responses: the three tools, and a name that
\* executeToolCall does not know
ToolCallLists ==
    { <<ToolCall("t1", "read_range")>>,
      <<ToolCall("t1", "write_range"), ToolCall("t2", "delete_sheet"),
        ToolCall("t3", "get_workbook_info")>> }

\* the ChatResponse bodies: a final answer (with a text, or with response null, here
\* ""), or tool calls (with or without a text)
Responses ==
    [session_id : SessionIds, response : {"answer", ""}, tool_calls : {<<>>}]
    \cup { [session_id |-> id, response |-> "", tool_calls |-> ToolCallLists1]
             : id \in SessionIds, ToolCallLists1 \in ToolCallLists }
    \cup { [session_id |-> "s1", response |-> "working", tool_calls |-> ToolCallLists1]
             : ToolCallLists1 \in {l \in ToolCallLists : Len(l) = 1} }

\* no response received yet
NoData == [session_id |-> NullSession, response |-> "", tool_calls |-> <<>>]

\* no request waiting for its response
NoRequest == [message |-> "", session_id |-> NullSession, tool_results |-> <<>>]

\* what executeToolCall resolves with
ExecuteToolCall(toolCall) ==
    IF toolCall.name = "read_range" THEN "values"
    ELSE IF toolCall.name = "write_range" THEN "Done"
    ELSE IF toolCall.name = "get_workbook_info" THEN "sheets"
    ELSE "Unknown tool"

\* the tools that call Excel.run, which may reject
RunsExcel(toolCall) == toolCall.name \in {"read_range", "write_range", "get_workbook_info"}

\* toolResults.unshift: the results in reverse order
PushResult_Unshift(toolResults, toolCall, res) ==
    <<[tool_use_id |-> toolCall.id, name |-> toolCall.name, result |-> res]>> \o toolResults

\* toolResults.push({ tool_use_id: toolCall.id, name: toolCall.name, result })
PushResult(toolResults, toolCall, res) ==
    Append(toolResults, [tool_use_id |-> toolCall.id, name |-> toolCall.name, result |-> res])

\* the follow-up request carrying the pane's sessionId state
FollowUpRequest_FromState(userMessage, data, toolResults, state) ==
    [message |-> userMessage, session_id |-> state, tool_results |-> toolResults]

\* body of the follow-up request: { message, session_id: data.session_id, tool_results }
FollowUpRequest(userMessage, data, toolResults, state) ==
    [message |-> userMessage, session_id |-> data.session_id, tool_results |-> toolResults]

\* while (data.tool_calls && data.tool_calls.length > 0)
HasToolCalls(data) == Len(data.tool_calls) > 0

\* the messages after the end of the loop: if (data.response) setMessages(...)
WithAnswer(msgs, data) ==
    IF data.response # "" THEN Append(msgs, [role |-> "assistant", content |-> data.response])
    ELSE msgs

\* the messages after the catch block
WithError(msgs) ==
    Append(msgs, [role |-> "assistant", content |-> "Error: TypeError: Failed to fetch"])

\* the user's inputs: nothing, a message
Inputs == {"", "hi"}

ChatInit ==
    /\ shapes = EmptySlide
    /\ pre = shapes
    /\ call = NoCall
    /\ returned = ""
    /\ console = {}
    /\ pc = "idle"
    /\ calls = 0
    /\ original = shapes
    /\ labeledShapes = Null
    /\ result = ""
    /\ NothingInFlight

pane == <<shapes, labeledShapes, result, message, running, settled>>

\* the user types in the input box
typeInput(text) ==
    /\ text # input
    /\ input' = text
    /\ UNCHANGED <<loading, messages, sessionId, exchanges>>
    /\ UNCHANGED <<layoutCall, pane>>

\* Send is clicked or Enter pressed: sendMessage runs up to the first `await fetch`.
\* An exchange holds the locals of its invocation (userMessage, data, toolResults),
\* the request waiting for its response, and, for the properties: opened, the
\* session id of its first request; answeredBefore, whether a response had been
\* received when it was sent; prevDone, whether every earlier exchange had ended
\* by then; firstId, the session id of its first response; appended, what it
\* appended to messages.
sendMessage ==
    /\ ~(Trim(input) = "")
    /\ Len(exchanges) < MaxSends
    /\ input' = ""
    /\ messages' = Append(messages, [role |-> "user", content |-> input])
    /\ loading' = TRUE
    /\ exchanges' = Append(exchanges,
          [userMessage |-> input,
           phase |-> "first",
           request |-> [message |-> input, session_id |-> sessionId, tool_results |-> <<>>],
           data |-> NoData,
           toolResults |-> <<>>,
           appended |-> "none",
           opened |-> sessionId,
           answeredBefore |-> \E j \in 1..Len(exchanges) : exchanges[j].firstId # NullSession,
           prevDone |-> \A j \in 1..Len(exchanges) : exchanges[j].phase = "done",
           firstId |-> NullSession])
    /\ UNCHANGED sessionId
    /\ UNCHANGED <<layoutCall, pane>>

\* the exchange after a response: into the tool loop, or past it to the end
AfterResponse(e, data) ==
    IF HasToolCalls(data)
    THEN [e EXCEPT !.phase = "tools", !.data = data, !.toolResults = <<>>,
                   !.request = NoRequest]
    ELSE [e EXCEPT !.phase = "done", !.data = data, !.toolResults = <<>>,
                   !.request = NoRequest,
                   !.appended = IF data.response # "" THEN "response" ELSE "none"]

\* the first fetch resolves and its body is parsed: setSessionId(data.session_id),
\* then the loop, or the end of sendMessage
firstResponse(i, data) ==
    /\ i \in 1..Len(exchanges)
    /\ exchanges[i].phase = "first"
    /\ sessionId' = data.session_id
    /\ exchanges' = [exchanges EXCEPT ![i] = [AfterResponse(@, data) EXCEPT
                                                 !.firstId = data.session_id]]
    /\ messages' = IF HasToolCalls(data) THEN messages ELSE WithAnswer(messages, data)
    /\ loading' = IF HasToolCalls(data) THEN loading ELSE FALSE
    /\ UNCHANGED input
    /\ UNCHANGED <<layoutCall, pane>>

\* one `await executeToolCall(toolCall)` resolves and its result is pushed; after
\* the last one the follow-up request is sent
executeToolCall(i) ==
    /\ i \in 1..Len(exchanges)
    /\ exchanges[i].phase = "tools"
    /\ LET e == exchanges[i]
           toolCall == e.data.tool_calls[Len(e.toolResults) + 1]
           pushed == PushResult(e.toolResults, toolCall, ExecuteToolCall(toolCall))
       IN  exchanges' = [exchanges EXCEPT ![i] =
               IF Len(pushed) = Len(e.data.tool_calls)
               THEN [e EXCEPT !.phase = "followUp",
                              !.toolResults = pushed,
                              !.request = FollowUpRequest(e.userMessage, e.data, pushed,
                                                          sessionId)]
               ELSE [e EXCEPT !.toolResults = pushed]]
    /\ UNCHANGED <<loading, messages, input, sessionId>>
    /\ UNCHANGED <<layoutCall, pane>>

\* the follow-up fetch resolves and its body is parsed: the loop goes on, or
\* sendMessage ends
followUpResponse(i, data) ==
    /\ i \in 1..Len(exchanges)
    /\ exchanges[i].phase = "followUp"
    /\ exchanges' = [exchanges EXCEPT ![i] = AfterResponse(@, data)]
    /\ messages' = IF HasToolCalls(data) THEN messages ELSE WithAnswer(messages, data)
    /\ loading' = IF HasToolCalls(data) THEN loading ELSE FALSE
    /\ UNCHANGED <<input, sessionId>>
    /\ UNCHANGED <<layoutCall, pane>>

\* a fetch, a response.json() or an Excel.run rejects: the catch block appends the
\* error and sendMessage ends
exchangeFails(i) ==
    /\ i \in 1..Len(exchanges)
    /\ \/ exchanges[i].phase \in {"first", "followUp"}
       \/ /\ exchanges[i].phase = "tools"
          /\ RunsExcel(exchanges[i].data.tool_calls[Len(exchanges[i].toolResults) + 1])
    /\ exchanges' = [exchanges EXCEPT ![i] = [@ EXCEPT !.phase = "done",
                                                       !.data = NoData,
                                                       !.toolResults = <<>>,
                                                       !.request = NoRequest,
                                                       !.appended = "error"]]
    /\ messages' = WithError(messages)
    /\ loading' = FALSE
    /\ UNCHANGED <<input, sessionId>>
    /\ UNCHANGED <<layoutCall, pane>>

ChatNext ==
    \/ \E text \in Inputs : typeInput(text)
    \/ sendMessage
    \/ \E i \in 1..MaxSends, data \in Responses : firstResponse(i, data)
    \/ \E i \in 1..MaxSends : executeToolCall(i)
    \/ \E i \in 1..MaxSends, data \in Responses : followUpResponse(i, data)
    \/ \E i \in 1..MaxSends : exchangeFails(i)

ChatSpec == ChatInit /\ [][ChatNext]_vars

-----------------------------------------------------------------------------
(* Vocabulary of the properties *)

\* the call has returned
Done == pc = "returned"

\* alignShapes(mode) has returned
Aligned(mode) == Done /\ call.op = "alignShapes" /\ call.mode = mode

\* requestArrangement has run arrangeShapesInOrder(call.ids, mode) and returned
Arranged(mode) ==
    Done /\ call.op = "requestArrangement" /\ call.outcome = "ok" /\ call.mode = mode

Range(seq) == {seq[k] : k \in 1..Len(seq)}

NoRepeat(seq) == \A i, j \in 1..Len(seq) : i # j => seq[i] # seq[j]

\* the sequences that list every element of S once
PermsOf(S) == {p \in [1..Cardinality(S) -> S] : NoRepeat(p)}

\* the entries of an order that name a shape of the slide, in order
Resolved(order) == SelectSeq(order, LAMBDA id : id \in ShapeIds)

\* the sum of a sequence of numbers
RECURSIVE RSum(_)
RSum(qs) == IF qs = <<>> THEN Num(0) ELSE RAdd(Head(qs), RSum(Tail(qs)))

XCenter(r) == RAdd(r.left, RDiv(r.width, 2))
YCenter(r) == RAdd(r.top, RDiv(r.height, 2))

\* (960 - 2*40 - sum of the widths) / (n - 1) over the entries of seq, on slide doc
WidthGap(doc, seq) ==
    RDiv(RSub(Num(960 - 2 * 40), RSum([k \in 1..Len(seq) |-> doc[seq[k]].width])),
         Len(seq) - 1)

\* 40 + sum over the entries before the k-th of (width + gap)
SlotLeft(doc, seq, k) ==
    RAdd(Num(40), RSum([j \in 1..(k - 1) |-> RAdd(doc[seq[j]].width, WidthGap(doc, seq))]))

-----------------------------------------------------------------------------
(* C1 *)

\* C1, as stated: after alignShapes with horizontal_center on 2 or more shapes
\* every shape has the same top + height/2, and left, width and height are unchanged.
C1_AsStated ==
    (Aligned("horizontal_center") /\ Len(call.ids) >= 2) =>
        /\ \A s, t \in Range(call.ids) : YCenter(shapes[s]) = YCenter(shapes[t])
        /\ \A s \in Range(call.ids) :
              /\ shapes[s].left = pre[s].left
              /\ shapes[s].width = pre[s].width
              /\ shapes[s].height = pre[s].height

\* C1, amended: after alignShapes with horizontal_center on 2 or more shapes every
\* shape has the same left + width/2 (the mean of the original values), and
\* top, width and height are unchanged.
C1_HorizontalCenter ==
    (Aligned("horizontal_center") /\ Len(call.ids) >= 2) =>
        /\ \A s, t \in Range(call.ids) : XCenter(shapes[s]) = XCenter(shapes[t])
        /\ \A s \in Range(call.ids) :
              /\ RMul(Len(call.ids), XCenter(shapes[s]))
                    = RSum([k \in 1..Len(call.ids) |-> XCenter(pre[call.ids[k]])])
              /\ shapes[s].top = pre[s].top
              /\ shapes[s].width = pre[s].width
              /\ shapes[s].height = pre[s].height

\* three shapes of unequal width and unequal center were centered, and one moved
C1_Witness ==
    /\ Aligned("horizontal_center")
    /\ Len(call.ids) = 3
    /\ \E s, t \in Range(call.ids) :
          /\ pre[s].width # pre[t].width
          /\ XCenter(pre[s]) # XCenter(pre[t])
          /\ YCenter(pre[s]) # YCenter(pre[t])
          /\ shapes[s].left # pre[s].left

-----------------------------------------------------------------------------
(* C2 *)

\* C2: after alignShapes with horizontal_distribute on n >= 2 shapes there is an
\* ascending order of the original lefts in which the first shape is at left 40
\* and each following one at previous left + previous width + gap, with
\* gap = (960 - 2*40 - sum of widths) / (n - 1), negative or not.
C2_HorizontalDistribute ==
    (Aligned("horizontal_distribute") /\ Len(call.ids) >= 2) =>
        \E p \in PermsOf(Range(call.ids)) :
            /\ \A k \in 1..(Len(p) - 1) : RLeq(pre[p[k]].left, pre[p[k + 1]].left)
            /\ shapes[p[1]].left = Num(40)
            /\ \A k \in 1..(Len(p) - 1) :
                  shapes[p[k + 1]].left
                     = RAdd(shapes[p[k]].left, RAdd(pre[p[k]].width, WidthGap(pre, p)))

\* three shapes with distinct lefts were distributed with a negative gap
C2_Witness ==
    /\ Aligned("horizontal_distribute")
    /\ Len(call.ids) = 3
    /\ \A s, t \in Range(call.ids) : s # t => pre[s].left # pre[t].left
    /\ RLess(WidthGap(pre, call.ids), Num(0))
    /\ shapes # pre

-----------------------------------------------------------------------------
(* C3 *)

\* C3, as stated: after alignShapes with horizontal_distribute on 2 or more shapes,
\* a shape that was left of another is not right of it, and no width has changed.
C3_AsStated ==
    (Aligned("horizontal_distribute") /\ Len(call.ids) >= 2) =>
        /\ \A a, b \in Range(call.ids) :
              RLess(pre[a].left, pre[b].left) => RLeq(shapes[a].left, shapes[b].left)
        /\ \A s \in ShapeIds : shapes[s].width = pre[s].width

\* no shape's width + gap is negative (so whenever the widths sum to 880 or less)
C3_NoStepBack ==
    \A s \in Range(call.ids) :
        RLeq(Num(0), RAdd(pre[s].width, WidthGap(pre, call.ids)))

\* C3, amended: the same, for the sets in which no shape's width + gap is negative,
\* as is every set whose widths sum to at most the available 880.
C3_OrderKept ==
    (Aligned("horizontal_distribute") /\ Len(call.ids) >= 2 /\ C3_NoStepBack) =>
        /\ \A a, b \in Range(call.ids) :
              RLess(pre[a].left, pre[b].left) => RLeq(shapes[a].left, shapes[b].left)
        /\ \A s \in ShapeIds : shapes[s].width = pre[s].width

\* shapes selected against their left-to-right order were distributed with a
\* negative gap that no width + gap goes below zero with
C3_Witness ==
    /\ Aligned("horizontal_distribute")
    /\ Len(call.ids) >= 2
    /\ C3_NoStepBack
    /\ RLess(WidthGap(pre, call.ids), Num(0))
    /\ RLess(pre[call.ids[2]].left, pre[call.ids[1]].left)
    /\ shapes # pre

-----------------------------------------------------------------------------
(* C4 *)

-----------------------------------------------------------------------------
(* C5 *)

\* the slide of the example: A{left 500}, B{left 10}, C{left 250}, all 50 wide
ExampleSlide ==
    /\ pre["a"] = Rect(500, 0, 50, 50)
    /\ pre["b"] = Rect(10, 0, 50, 50)
    /\ pre["c"] = Rect(250, 0, 50, 50)

\* C5, as stated: on the example slide, order [A, B, C] with horizontal_distribute
\* gives gap 365 and lefts A = 40, B = 430, C = 820.
C5_AsStated ==
    (Arranged("horizontal_distribute") /\ ExampleSlide /\ call.ids = <<"a", "b", "c">>) =>
        /\ WidthGap(pre, call.ids) = Num(365)
        /\ shapes["a"].left = Num(40)
        /\ shapes["b"].left = Num(430)
        /\ shapes["c"].left = Num(820)

\* C5, amended: on the example slide, order [A, B, C] with horizontal_distribute
\* gives gap 365 and lefts A = 40, B = 455, C = 870: each left is the previous
\* left plus the previous width 50 plus the gap 365.
C5_Example ==
    (Arranged("horizontal_distribute") /\ ExampleSlide /\ call.ids = <<"a", "b", "c">>) =>
        /\ WidthGap(pre, call.ids) = Num(365)
        /\ shapes["a"].left = Num(40)
        /\ shapes["b"].left = Num(455)
        /\ shapes["c"].left = Num(870)
        /\ RSub(shapes["b"].left, RAdd(shapes["a"].left, shapes["a"].width)) = Num(365)
        /\ RSub(shapes["c"].left, RAdd(shapes["b"].left, shapes["b"].width)) = Num(365)

\* the example was run
C5_Witness ==
    Arranged("horizontal_distribute") /\ ExampleSlide /\ call.ids = <<"a", "b", "c">>

-----------------------------------------------------------------------------
(* C6 *)

\* the mean of the original centers over the resolved entries of the order (an id
\* the order names twice is counted twice), times the number of entries
SumOfYCenters == RSum([k \in 1..Len(Resolved(call.ids)) |-> YCenter(pre[Resolved(call.ids)[k]])])
SumOfXCenters == RSum([k \in 1..Len(Resolved(call.ids)) |-> XCenter(pre[Resolved(call.ids)[k]])])

\* C6: arrangeShapesInOrder with horizontal_distribute also sets every arranged
\* shape's top so that top + height/2 is the mean of the original vertical centers
\* of the ordered shapes; with vertical_distribute it sets every left so that
\* left + width/2 is the mean of the original horizontal centers.
C6_CrossAxis ==
    /\ (Arranged("horizontal_distribute") /\ Len(Resolved(call.ids)) >= 2) =>
          \A s \in Range(Resolved(call.ids)) :
              RMul(Len(Resolved(call.ids)), YCenter(shapes[s])) = SumOfYCenters
    /\ (Arranged("vertical_distribute") /\ Len(Resolved(call.ids)) >= 2) =>
          \A s \in Range(Resolved(call.ids)) :
              RMul(Len(Resolved(call.ids)), XCenter(shapes[s])) = SumOfXCenters

\* three shapes of unequal height and vertical center were distributed
\* horizontally, and a top changed
C6_Witness ==
    /\ Arranged("horizontal_distribute")
    /\ Len(call.ids) = 3 /\ NoRepeat(call.ids) /\ Range(call.ids) \subseteq ShapeIds
    /\ \E s, t \in ShapeIds :
          /\ pre[s].height # pre[t].height
          /\ YCenter(pre[s]) # YCenter(pre[t])
          /\ shapes[s].top # pre[s].top

-----------------------------------------------------------------------------
(* C7 *)

\* arrangeShapesInOrder has left the slide as alignShapes leaves it, for every
\* selection of the shapes the order names
SameAsAlignShapes ==
    \A selected \in PermsOf(Range(call.ids)) :
        shapes = AlignResult(pre, selected, call.mode)

\* C7, as stated: with horizontal_center or vertical_center, arrangeShapesInOrder
\* leaves the positions alignShapes leaves on the same set of shapes, for every
\* order over the ids of the set, orders that repeat an id included.
C7_AsStated ==
    ((Arranged("horizontal_center") \/ Arranged("vertical_center"))
        /\ Range(call.ids) \subseteq ShapeIds) => SameAsAlignShapes

\* C7, amended: the same for every order that names each id of the set once (a
\* permutation); an id named twice is counted twice in the mean.
C7_CenterSameAsUnordered ==
    ((Arranged("horizontal_center") \/ Arranged("vertical_center"))
        /\ Range(call.ids) \subseteq ShapeIds /\ NoRepeat(call.ids)) => SameAsAlignShapes

\* three shapes with unequal horizontal centers were centered in an order that is
\* not the slide's
C7_Witness ==
    /\ Arranged("horizontal_center")
    /\ call.ids = <<"c", "a", "b">>
    /\ XCenter(pre["a"]) # XCenter(pre["b"])
    /\ shapes["a"].left # pre["a"].left
    /\ XCenter(shapes["a"]) = XCenter(shapes["c"])

-----------------------------------------------------------------------------
(* C8 *)

\* C8: an id of the order that names no shape is skipped without aborting: the
\* call completes, and the slide is the one the same call leaves with that id
\* removed from the order.
C8_AbsentIdSkipped ==
    \A mode \in AlignmentStrings :
        (Arranged(mode) /\ AbsentId \in Range(call.ids)) =>
            /\ shapes = ArrangeResult(pre, Resolved(call.ids), mode)
            /\ returned = Explanation
            /\ "Shape with id z not found" \in console

\* an order with an absent id between two shapes was arranged, and both moved
C8_Witness ==
    /\ Arranged("horizontal_distribute")
    /\ Len(call.ids) = 3
    /\ call.ids[2] = AbsentId
    /\ Len(Resolved(call.ids)) = 2
    /\ \A s \in Range(Resolved(call.ids)) : shapes[s].left # pre[s].left

-----------------------------------------------------------------------------
(* C9 *)

\* C9: alignShapes with fewer than 2 selected shapes, and arrangeShapesInOrder with
\* fewer than 2 entries of the order naming a shape of the slide, change no left
\* and no top, in every mode.
C9_InsufficientInput ==
    ((Done /\ call.op = "alignShapes" /\ Len(call.ids) < 2)
        \/ (Done /\ call.op = "requestArrangement" /\ call.outcome = "ok"
               /\ Len(Resolved(call.ids)) < 2)) =>
        \A s \in ShapeIds : shapes[s].left = pre[s].left /\ shapes[s].top = pre[s].top

\* an order of two entries, one naming a shape not at the margin and one naming
\* none, was given with horizontal_distribute
C9_Witness ==
    /\ Arranged("horizontal_distribute")
    /\ Len(call.ids) = 2
    /\ Len(Resolved(call.ids)) = 1
    /\ pre[Resolved(call.ids)[1]].left # Num(40)

-----------------------------------------------------------------------------
(* C10 *)

\* C10: when an arrangement requested through requestArrangement resolves fewer
\* than 2 shapes, the string returned to the UI is a 'need at least 2 shapes'
\* message and not the backend's explanation.
C10_InsufficientReported ==
    (Done /\ call.op = "requestArrangement" /\ call.outcome = "ok"
        /\ Len(Resolved(call.ids)) < 2) =>
        /\ returned = "Need at least 2 shapes to arrange"
        /\ returned # Explanation

-----------------------------------------------------------------------------
(* More vocabulary *)

\* (540 - 2*40 - sum of the heights) / (n - 1) over the entries of seq, on slide doc
HeightGap(doc, seq) ==
    RDiv(RSub(Num(540 - 2 * 40), RSum([k \in 1..Len(seq) |-> doc[seq[k]].height])),
         Len(seq) - 1)

\* 40 + sum over the entries before the k-th of (height + gap)
SlotTop(doc, seq, k) ==
    RAdd(Num(40), RSum([j \in 1..(k - 1) |-> RAdd(doc[seq[j]].height, HeightGap(doc, seq))]))

\* the place of the last entry of seq that is s
LastIndex(seq, s) ==
    CHOOSE k \in 1..Len(seq) : seq[k] = s /\ \A j \in (k + 1)..Len(seq) : seq[j] # s

\* the place of s in a sequence that lists it once
IndexOf(seq, s) == CHOOSE k \in 1..Len(seq) : seq[k] = s

\* the call ran to its end: alignShapes, or requestArrangement with an ok response
Completed ==
    Done /\ call.op \in {"alignShapes", "requestArrangement"} /\ call.outcome = "ok"

-----------------------------------------------------------------------------
(* C11 *)

\* C11: with a mode string that is none of the four modes, alignShapes and
\* arrangeShapesInOrder complete without error and leave every shape's left, top,
\* width and height unchanged.
C11_UnsupportedMode ==
    (Completed /\ call.mode \notin AlignmentModes) =>
        /\ shapes = pre
        /\ returned = (IF call.op = "alignShapes" THEN "undefined" ELSE Explanation)

\* three shapes that every mode would move were arranged with another string
C11_Witness ==
    /\ Arranged("diagonal")
    /\ call.ids = <<"c", "a", "b">>
    /\ \A s, t \in ShapeIds : s # t =>
          XCenter(pre[s]) # XCenter(pre[t]) /\ YCenter(pre[s]) # YCenter(pre[t])

-----------------------------------------------------------------------------
(* C14 *)

\* C14: an order that names an id more than once is accepted: in a distribute mode
\* every occurrence takes a slot of its own (the shape's size counts once per
\* occurrence in the total and in the number of gaps), the shape ends at the slot
\* of its last occurrence, and the call completes without error.
C14_RepeatedId ==
    /\ (Arranged("horizontal_distribute") /\ ~NoRepeat(Resolved(call.ids))) =>
          /\ \A s \in Range(Resolved(call.ids)) :
                shapes[s].left
                   = SlotLeft(pre, Resolved(call.ids), LastIndex(Resolved(call.ids), s))
          /\ returned = Explanation
    /\ (Arranged("vertical_distribute") /\ ~NoRepeat(Resolved(call.ids))) =>
          /\ \A s \in Range(Resolved(call.ids)) :
                shapes[s].top
                   = SlotTop(pre, Resolved(call.ids), LastIndex(Resolved(call.ids), s))
          /\ returned = Explanation

\* the order [a, b, a] was distributed: a is in the third slot, right of b
C14_Witness ==
    /\ Arranged("horizontal_distribute")
    /\ call.ids = <<"a", "b", "a">>
    /\ shapes["b"].left # Num(40)
    /\ shapes["a"].left # Num(40)
    /\ shapes["a"].left = SlotLeft(pre, call.ids, 3)

-----------------------------------------------------------------------------
(* C16 *)

\* the shapes a call places, in the order it places them
Placed ==
    IF call.op = "alignShapes"
    THEN IF call.mode = "horizontal_distribute" THEN SortedBy(call.ids, pre, "left")
         ELSE IF call.mode = "vertical_distribute" THEN SortedBy(call.ids, pre, "top")
         ELSE call.ids
    ELSE Resolved(call.ids)

\* the means of the centers the placed shapes had when the call began
MeanX == RDiv(RSum([k \in 1..Len(Placed) |-> XCenter(pre[Placed[k]])]), Len(Placed))
MeanY == RDiv(RSum([k \in 1..Len(Placed) |-> YCenter(pre[Placed[k]])]), Len(Placed))

\* the position of shape s computed from the snapshot `pre` alone
FromSnapshot(s) ==
    IF Len(Placed) < 2 \/ s \notin Range(Placed) THEN pre[s]
    ELSE IF call.mode = "horizontal_center"
         THEN [pre[s] EXCEPT !.left = RSub(MeanX, RDiv(pre[s].width, 2))]
    ELSE IF call.mode = "vertical_center"
         THEN [pre[s] EXCEPT !.top = RSub(MeanY, RDiv(pre[s].height, 2))]
    ELSE IF call.mode = "horizontal_distribute"
         THEN [pre[s] EXCEPT
                  !.left = SlotLeft(pre, Placed, LastIndex(Placed, s)),
                  !.top = IF call.op = "alignShapes" THEN pre[s].top
                          ELSE RSub(MeanY, RDiv(pre[s].height, 2))]
    ELSE IF call.mode = "vertical_distribute"
         THEN [pre[s] EXCEPT
                  !.top = SlotTop(pre, Placed, LastIndex(Placed, s)),
                  !.left = IF call.op = "alignShapes" THEN pre[s].left
                           ELSE RSub(MeanX, RDiv(pre[s].width, 2))]
    ELSE pre[s]

\* C16: every position alignShapes or arrangeShapesInOrder writes is a function of
\* the snapshot the call read: the slide it leaves is the one obtained by computing
\* every new position from the snapshot first and writing them once afterwards.
C16_SnapshotOnly ==
    Completed => shapes = [s \in ShapeIds |-> FromSnapshot(s)]

\* an order naming a shape twice was distributed vertically: the shape was written
\* twice, and every shape moved on both axes
C16_Witness ==
    /\ Arranged("vertical_distribute")
    /\ call.ids = <<"b", "a", "b">>
    /\ \A s \in {"a", "b"} : shapes[s].left # pre[s].left /\ shapes[s].top # pre[s].top

-----------------------------------------------------------------------------
(* C17 *)

\* the shapes are placed along p: the first at 40, each next one at the previous
\* position + the previous size + gap
ChainLeft(p) ==
    /\ shapes[p[1]].left = Num(40)
    /\ \A k \in 1..(Len(p) - 1) :
          shapes[p[k + 1]].left
             = RAdd(shapes[p[k]].left, RAdd(pre[p[k]].width, WidthGap(pre, p)))

ChainTop(p) ==
    /\ shapes[p[1]].top = Num(40)
    /\ \A k \in 1..(Len(p) - 1) :
          shapes[p[k + 1]].top
             = RAdd(shapes[p[k]].top, RAdd(pre[p[k]].height, HeightGap(pre, p)))

\* in p, shapes that tie on field pos keep the order they have in the selection
TiesInInputOrder(p, pos) ==
    \A i, j \in 1..Len(call.ids) :
        (i < j /\ pre[call.ids[i]][pos] = pre[call.ids[j]][pos]) =>
            IndexOf(p, call.ids[i]) < IndexOf(p, call.ids[j])

\* C17: in alignShapes with horizontal_distribute (vertical_distribute), shapes
\* whose original lefts (tops) are equal are placed in their input order.
C17_StableTies ==
    /\ (Aligned("horizontal_distribute") /\ Len(call.ids) >= 2) =>
          \E p \in PermsOf(Range(call.ids)) :
              /\ \A k \in 1..(Len(p) - 1) : RLeq(pre[p[k]].left, pre[p[k + 1]].left)
              /\ TiesInInputOrder(p, "left")
              /\ ChainLeft(p)
    /\ (Aligned("vertical_distribute") /\ Len(call.ids) >= 2) =>
          \E p \in PermsOf(Range(call.ids)) :
              /\ \A k \in 1..(Len(p) - 1) : RLeq(pre[p[k]].top, pre[p[k + 1]].top)
              /\ TiesInInputOrder(p, "top")
              /\ ChainTop(p)

\* c and a had the same left and were selected c first: c is at the margin, a next
C17_Witness ==
    /\ Aligned("horizontal_distribute")
    /\ call.ids = <<"c", "a">>
    /\ pre["c"].left = pre["a"].left
    /\ shapes["c"].left = Num(40)
    /\ shapes["a"].left # Num(40)

-----------------------------------------------------------------------------
(* C18 *)

\* C18: alignShapes with vertical_distribute on n >= 2 shapes places the shape with
\* the smallest original top at top 40 and each following one (in ascending
\* original top) at previous top + previous height + gap, with
\* gap = (540 - 80 - sum of heights) / (n - 1), and changes no left; unordered
\* horizontal_distribute changes no top.
C18_VerticalDistribute ==
    /\ (Aligned("vertical_distribute") /\ Len(call.ids) >= 2) =>
          /\ \E p \in PermsOf(Range(call.ids)) :
                /\ \A k \in 1..(Len(p) - 1) : RLeq(pre[p[k]].top, pre[p[k + 1]].top)
                /\ ChainTop(p)
          /\ \A s \in ShapeIds : shapes[s].left = pre[s].left
    /\ (Aligned("horizontal_distribute") /\ Len(call.ids) >= 2) =>
          \A s \in ShapeIds : shapes[s].top = pre[s].top

\* three shapes with distinct tops and lefts were distributed vertically
C18_Witness ==
    /\ Aligned("vertical_distribute")
    /\ Len(call.ids) = 3
    /\ \A s, t \in ShapeIds : s # t =>
          pre[s].top # pre[t].top /\ pre[s].left # pre[t].left
    /\ \E s \in ShapeIds : shapes[s].top # pre[s].top

-----------------------------------------------------------------------------
(* C19 *)

\* C19: after a distribute arrangement of n >= 2 distinct shapes (unordered, or
\* ordered with distinct resolved ids) the shape placed last ends at the far margin:
\* left + width = 960 - 40 = 920 for horizontal_distribute, top + height =
\* 540 - 40 = 500 for vertical_distribute, negative gaps included.
C19_LastAtFarMargin ==
    /\ (Aligned("horizontal_distribute") /\ Len(call.ids) >= 2) =>
          \E s \in Range(call.ids) :
              /\ \A t \in Range(call.ids) : RLeq(pre[t].left, pre[s].left)
              /\ RAdd(shapes[s].left, shapes[s].width) = Num(920)
    /\ (Aligned("vertical_distribute") /\ Len(call.ids) >= 2) =>
          \E s \in Range(call.ids) :
              /\ \A t \in Range(call.ids) : RLeq(pre[t].top, pre[s].top)
              /\ RAdd(shapes[s].top, shapes[s].height) = Num(500)
    /\ (Arranged("horizontal_distribute") /\ Len(Resolved(call.ids)) >= 2
           /\ NoRepeat(Resolved(call.ids))) =>
          LET last == Resolved(call.ids)[Len(Resolved(call.ids))]
          IN  RAdd(shapes[last].left, shapes[last].width) = Num(920)
    /\ (Arranged("vertical_distribute") /\ Len(Resolved(call.ids)) >= 2
           /\ NoRepeat(Resolved(call.ids))) =>
          LET last == Resolved(call.ids)[Len(Resolved(call.ids))]
          IN  RAdd(shapes[last].top, shapes[last].height) = Num(500)

\* three shapes were arranged top to bottom with a negative gap
C19_Witness ==
    /\ Arranged("vertical_distribute")
    /\ Len(call.ids) = 3 /\ NoRepeat(call.ids) /\ Range(call.ids) \subseteq ShapeIds
    /\ RLess(HeightGap(pre, call.ids), Num(0))
    /\ RAdd(shapes[call.ids[3]].top, shapes[call.ids[3]].height) = Num(500)

-----------------------------------------------------------------------------
(* C12 *)

\* C12: after any sequence of alignShapes / arrangeShapesInOrder calls every shape's
\* width and height equal their initial values, and a shape that a call did not
\* select (alignShapes) or resolve from its order (arrangeShapesInOrder) has the
\* same left and top after the call as before it.
C12_SizesAndOthersKept ==
    /\ \A s \in ShapeIds :
          shapes[s].width = original[s].width /\ shapes[s].height = original[s].height
    /\ (Done /\ call.op = "alignShapes") =>
          \A s \in ShapeIds \ Range(call.ids) :
              shapes[s].left = pre[s].left /\ shapes[s].top = pre[s].top
    /\ (Done /\ call.op = "requestArrangement") =>
          \A s \in ShapeIds \ Range(Resolved(call.ids)) :
              shapes[s].left = pre[s].left /\ shapes[s].top = pre[s].top

\* a third call moved a and b and left c where the earlier calls had put it
C12_Witness ==
    /\ Done /\ calls = 3
    /\ call.op = "requestArrangement" /\ call.ids = <<"b", "a">>
    /\ shapes["a"] # pre["a"] /\ shapes["b"] # pre["b"]
    /\ pre["c"] # original["c"]
    /\ shapes["c"] = pre["c"]

-----------------------------------------------------------------------------
(* C13 *)

\* C13: horizontal_center applied twice in a row to the same 2 or more shapes
\* leaves the slide as one application left it (alignShapes and
\* arrangeShapesInOrder alike).
C13_CenterTwice ==
    (pc = "repeated" /\ call.mode = "horizontal_center") => shapes = pre

\* three shapes with different centers were centered, and centered again
C13_Witness ==
    /\ pc = "repeated" /\ call.mode = "horizontal_center"
    /\ call.op = "alignShapes" /\ Len(call.ids) = 3
    /\ \A s, t \in ShapeIds : s # t => XCenter(original[s]) # XCenter(original[t])
    /\ \A s \in ShapeIds : shapes[s] # original[s]
    /\ shapes = pre

-----------------------------------------------------------------------------
(* C15 *)

\* C15: the positions an arrangement writes are computed from the geometry read
\* inside the arrangement call (`pre`), never from the geometry captured when the
\* slide was analysed (labeledShapes): a shape moved or resized in between is
\* arranged with its current values.
C15_CurrentGeometry ==
    (Done /\ call.op = "requestArrangement" /\ call.outcome = "ok"
          /\ labeledShapes # Null) =>
        \A s \in ShapeIds : shapes[s] = FromSnapshot(s)

\* b was resized and c moved after the analysis, then b, c were distributed
C15_Witness ==
    /\ Arranged("horizontal_distribute")
    /\ call.ids = <<"b", "c">>
    /\ labeledShapes # Null
    /\ labeledShapes["b"].width # pre["b"].width
    /\ labeledShapes["c"].top # pre["c"].top
    /\ shapes["c"].left
         = RAdd(Num(40), RAdd(pre["b"].width, WidthGap(pre, call.ids)))
    /\ shapes["c"].left
         # RAdd(Num(40), RAdd(labeledShapes["b"].width, WidthGap(labeledShapes, call.ids)))

-----------------------------------------------------------------------------
(* C20 *)

\* C20: when the request to /arrange fails or is answered with a status that is
\* not OK, requestArrangement does not throw: arrangeShapesInOrder is not invoked,
\* no geometry changes, and the string it returns begins with "Error:" and is
\* what the task pane's result area shows.
C20_FailedRequest ==
    (Done /\ call.op = "requestArrangement" /\ call.outcome # "ok") =>
        /\ "Shape order:" \notin console
        /\ shapes = pre
        /\ SubSeq(returned, 1, 6) = "Error:"
        /\ result = returned

\* after an analysis the /arrange request was rejected
C20_Witness ==
    /\ Done /\ call.op = "requestArrangement" /\ call.outcome = "rejected"
    /\ labeledShapes = shapes
    /\ result = "Error: TypeError: Failed to fetch"

-----------------------------------------------------------------------------
(* C21 *)

\* C21: in the PowerPoint task pane, in every reachable state where loading is false
\* a control that starts a slide analysis is shown (the Start button or the
\* Re-analyze button), whatever the previous analysis gave: a failure, a slide with
\* shapes, a slide without shapes.
C21_AnalysisControl == (~loading) => (StartShown \/ MainShown)

-----------------------------------------------------------------------------
(* C22 *)

\* C22: in the PowerPoint task pane at most one document operation (analysis,
\* arrangement, quick alignment) is in flight at a time, and loading is true for
\* as long as one is.
C22_OneInFlight == InFlight <= 1 /\ (InFlight > 0 => loading)

-----------------------------------------------------------------------------
(* C23 *)

\* a handler that has just run to its end has set loading back to false
LoadingResetOnSettle == settled.op # "none" => ~loading

\* C23: a handler invocation that set loading to true sets it back to false when its
\* awaited call settles, resolved or rejected; after a rejected analysis
\* labeledShapes is null and the result text begins with "Error:".
C23_SettleResets ==
    /\ LoadingResetOnSettle
    /\ (settled.op = "analysis" /\ settled.outcome # "ok") =>
          /\ labeledShapes = Null
          /\ SubSeq(result, 1, 6) = "Error:"

-----------------------------------------------------------------------------
(* C24 *)

\* result r is the result of tool call c: its id, its name, and "Unknown tool"
\* exactly for a name that is none of the three tools
ResultOf(r, c) ==
    /\ r.tool_use_id = c.id
    /\ r.name = c.name
    /\ (r.result = "Unknown tool")
          <=> (c.name \notin {"read_range", "write_range", "get_workbook_info"})

\* the entries of messages that carry a response text
Answers == SelectSeq(messages, LAMBDA m : m.role = "assistant" /\ m.content = "answer")

\* C24: sendMessage keeps calling /chat while the latest response carries tool
\* calls: the k tool calls of a response are executed in the order received, one
\* follow-up request per such response (no request is waiting while the tool calls
\* run; the one sent after them holds the results of the latest response, and
\* nothing follows a response without tool calls) holds their k results in that
\* order, each
\* with the tool_use_id and name of its call (an unknown name gives "Unknown tool"
\* and the loop goes on), and the assistant message is appended only after a
\* response without tool calls.
C24_ToolLoop ==
    /\ \A i \in 1..Len(exchanges) :
          LET e == exchanges[i]
          IN  /\ e.phase = "tools" =>
                    /\ Len(e.toolResults) < Len(e.data.tool_calls)
                    /\ \A k \in 1..Len(e.toolResults) :
                          ResultOf(e.toolResults[k], e.data.tool_calls[k])
                    /\ e.request = NoRequest
              /\ e.phase = "followUp" =>
                    /\ Len(e.data.tool_calls) > 0
                    /\ Len(e.request.tool_results) = Len(e.data.tool_calls)
                    /\ \A k \in 1..Len(e.data.tool_calls) :
                          ResultOf(e.request.tool_results[k], e.data.tool_calls[k])
                    /\ e.request.tool_results = e.toolResults
                    /\ e.request.message = e.userMessage
              /\ (e.phase = "done" /\ e.appended # "error") =>
                    /\ Len(e.data.tool_calls) = 0
                    /\ e.request = NoRequest
              /\ e.appended = "response" => e.phase = "done"
    /\ Len(Answers)
          = Cardinality({i \in 1..Len(exchanges) : exchanges[i].appended = "response"})

\* a follow-up of an exchange, sent after an earlier one was answered (the session
\* id has changed since the first response), holds three results, the one in the
\* middle for a tool the pane does not know, and no assistant message was appended
C24_Witness ==
    \E i \in 1..Len(exchanges) :
        /\ exchanges[i].phase = "followUp"
        /\ exchanges[i].data.session_id # exchanges[i].firstId
        /\ Len(exchanges[i].request.tool_results) = 3
        /\ exchanges[i].request.tool_results[2].result = "Unknown tool"
        /\ exchanges[i].request.tool_results[3].result = "sheets"
        /\ Answers = <<>>

-----------------------------------------------------------------------------
(* C25 *)

\* the exchanges that have not run to their end
ExchangesInFlight == {i \in 1..Len(exchanges) : exchanges[i].phase # "done"}

\* C25: in the Excel chat pane at most one sendMessage exchange is in flight at a
\* time, and loading is true whenever one is.
C25_OneExchange ==
    /\ Cardinality(ExchangesInFlight) <= 1
    /\ ExchangesInFlight # {} => loading

-----------------------------------------------------------------------------
(* C26 *)

====
